---- MODULE Spec2Model ----
(***************************************************************************)
(* A model of the training orchestrator (trainer.py) and of the boundary   *)
(* distance metric (utils/metrics.py) of head-rec-baselines.               *)
(*                                                                         *)
(* Two specifications share this module:                                   *)
(*   Spec    the epoch loop of trainer()                                   *)
(*   SpecHD  hd_landmarks() / hd_land() applied to bounded inputs          *)
(* Each specification holds the other one's variables at their idle value. *)
(***************************************************************************)
EXTENDS Integers, Sequences, FiniteSets, TLC

(***************************************************************************)
(* Bounds of the model.                                                    *)
(***************************************************************************)
\* coordinates are enumerated in half pixels h/2, h in -MaxHalf..MaxHalf
MaxHalf == 3
\* the small grid size of the metric (besides 1 and the default 1024)
SmallSize == 4

(***************************************************************************)
(* Program constants.                                                      *)
(***************************************************************************)
\* hd_landmarks(out, label, size = 1024, ...), and the size the trainer passes
DefaultSize == 1024
\* target[:44], target[44:94], target[94:120]
RLEnd == 44
LLEnd == 94
HEnd == 120

Min(a, b) == IF a < b THEN a ELSE b
Max(a, b) == IF a > b THEN a ELSE b
Abs(a) == IF a < 0 THEN -a ELSE a

(***************************************************************************)
(* utils/metrics.py                                                        *)
(*                                                                         *)
(* A coordinate is a float.  The finite ones are modelled exactly as a     *)
(* rational n/d; "nan", "posbig" and "negbig" stand for the floats whose   *)
(* product with size is not a number or lies outside the int32 range.      *)
(***************************************************************************)
Fin(n, d) == [kind |-> "fin", n |-> n, d |-> d]
NaN == [kind |-> "nan", n |-> 0, d |-> 1]
PosBig == [kind |-> "posbig", n |-> 0, d |-> 1]
NegBig == [kind |-> "negbig", n |-> 0, d |-> 1]

\* the two extreme int32 values
Int32Max == 2147483647
Int32Min == (-2147483647) - 1

\* What float -> int32 conversion of a value that int32 cannot hold yields is
\* not defined; the builds differ: "indefinite" yields INT_MIN for every such
\* value, "saturate" yields 0 for NaN and the nearest int32 otherwise.
Builds == {"indefinite", "saturate"}

\* label.cpu().numpy() * size
ScaleCoord(v, size) == [v EXCEPT !.n = v.n * size]

\* rounding of the rational n/d (d > 0) to the nearest integer, a tie going
\* away from zero
RoundHalfAway(n, d) ==
    LET f == n \div d
        r == n - f * d
    IN  IF 2 * r < d THEN f
        ELSE IF 2 * r > d THEN f + 1
        ELSE IF f >= 0 THEN f + 1 ELSE f

\* np.round of the rational n/d (d > 0): the nearest integer, a tie going to
\* the even neighbour
NpRound(n, d) ==
    LET f == n \div d
        r == n - f * d
    IN  IF 2 * r < d THEN f
        ELSE IF 2 * r > d THEN f + 1
        ELSE IF f % 2 = 0 THEN f ELSE f + 1

\* .astype('int32') of a rounded float
AsInt32(v, build) ==
    CASE v.kind = "fin" -> NpRound(v.n, v.d)
      [] v.kind = "nan" -> IF build = "saturate" THEN 0 ELSE Int32Min
      [] v.kind = "posbig" -> IF build = "saturate" THEN Int32Max ELSE Int32Min
      [] v.kind = "negbig" -> Int32Min

\* .clip(0, size - 1)
ClipNone(x, size) == x

Clip(x, size) == Min(Max(x, 0), size - 1)

\* np.round(v * size).astype('int32').clip(0, size - 1) of one coordinate
ToPixel(v, size, build) == Clip(AsInt32(ScaleCoord(v, size), build), size)

\* the same of an (n, 2) array: a sequence of points <<x, y>>
Rescale(arr, size, build) ==
    [i \in 1..Len(arr) |->
        <<ToPixel(arr[i][1], size, build), ToPixel(arr[i][2], size, build)>>]

\* arr[lo:hi, :] of Python, 0-based and clamped to the array
Slice(arr, lo, hi) ==
    LET a == Min(lo, Len(arr))
        b == Min(hi, Len(arr))
    IN  [i \in 1..(b - a) |-> arr[a + i]]

\* coords[(x, y)] = True for every point: numpy accepts an index in
\* -size..size-1, a negative one counting from the end, and raises IndexError
\* for any other.  The grid is modelled as the set of its True pixels.
InGrid(x, size) == x >= -size /\ x <= size - 1
WrapIndex(x, size) == IF x < 0 THEN x + size ELSE x
Rasterize(pts, size) ==
    IF \E i \in 1..Len(pts) : ~InGrid(pts[i][1], size) \/ ~InGrid(pts[i][2], size)
    THEN [err |-> "IndexError", px |-> {}]
    ELSE [err |-> "none",
          px |-> {<<WrapIndex(pts[i][1], size), WrapIndex(pts[i][2], size)>> :
                     i \in 1..Len(pts)}]

\* squared Euclidean distance of two pixels
Dist2(p, q) == (p[1] - q[1]) * (p[1] - q[1]) + (p[2] - q[2]) * (p[2] - q[2])

SetMin(S) == CHOOSE x \in S : \A y \in S : x <= y
SetMax(S) == CHOOSE x \in S : \A y \in S : x >= y

\* max over a of the distance from a to the nearest point of B (squared)
Directed2(A, B) == SetMax({SetMin({Dist2(a, b) : b \in B}) : a \in A})

\* A distance is kept as [inf, d2]: infinity, or the square root of d2.
Finite(d2) == [inf |-> FALSE, d2 |-> d2]
Infinite == [inf |-> TRUE, d2 |-> 0]

\* skimage.metrics.hausdorff_distance(coords_a, coords_b): 0 when both sets
\* are empty, infinity when one is, else the larger directed distance
HausdorffOneWay(A, B) ==
    IF A = {} THEN (IF B = {} THEN Finite(0) ELSE Infinite)
    ELSE IF B = {} THEN Infinite
    ELSE Finite(Directed2(A, B))

Hausdorff(A, B) ==
    IF A = {} THEN (IF B = {} THEN Finite(0) ELSE Infinite)
    ELSE IF B = {} THEN Infinite
    ELSE Finite(Max(Directed2(A, B), Directed2(B, A)))

\* hd_land(target, pred, shape): [err, dist]
hd_land(target, pred, size) ==
    LET a == Rasterize(target, size)
        b == Rasterize(pred, size)
    IN  IF a.err # "none" THEN [err |-> a.err, dist |-> Infinite]
        ELSE IF b.err # "none" THEN [err |-> b.err, dist |-> Infinite]
        ELSE [err |-> "none", dist |-> Hausdorff(a.px, b.px)]

\* the regions cut one row late: [:45], [45:94], [94:120]
RegionsOffByOne(target, pred, size, heart) ==
    LET rl == hd_land(Slice(target, 0, RLEnd + 1), Slice(pred, 0, RLEnd + 1), size)
        ll == hd_land(Slice(target, RLEnd + 1, LLEnd), Slice(pred, RLEnd + 1, LLEnd), size)
        h  == hd_land(Slice(target, LLEnd, HEnd), Slice(pred, LLEnd, HEnd), size)
    IN  IF rl.err # "none" THEN [err |-> rl.err, vals |-> <<>>]
        ELSE IF ll.err # "none" THEN [err |-> ll.err, vals |-> <<>>]
        ELSE IF heart
             THEN IF h.err # "none" THEN [err |-> h.err, vals |-> <<>>]
                  ELSE [err |-> "none", vals |-> <<rl.dist, ll.dist, h.dist>>]
             ELSE [err |-> "none", vals |-> <<rl.dist, ll.dist>>]

\* the region part of hd_landmarks, on the rescaled arrays: [err, vals]
Regions(target, pred, size, heart) ==
    LET rl == hd_land(Slice(target, 0, RLEnd), Slice(pred, 0, RLEnd), size)
        ll == hd_land(Slice(target, RLEnd, LLEnd), Slice(pred, RLEnd, LLEnd), size)
        h  == hd_land(Slice(target, LLEnd, HEnd), Slice(pred, LLEnd, HEnd), size)
    IN  IF rl.err # "none" THEN [err |-> rl.err, vals |-> <<>>]
        ELSE IF ll.err # "none" THEN [err |-> ll.err, vals |-> <<>>]
        ELSE IF heart
             THEN IF h.err # "none" THEN [err |-> h.err, vals |-> <<>>]
                  ELSE [err |-> "none", vals |-> <<rl.dist, ll.dist, h.dist>>]
             ELSE [err |-> "none", vals |-> <<rl.dist, ll.dist>>]

\* hd_landmarks(out, label, size, heart)
hd_landmarks(o, label, size, heart, build) ==
    Regions(Rescale(label, size, build), Rescale(o, size, build), size, heart)

(***************************************************************************)
(* The inputs of SpecHD.  An array is given by [n, p, q]: n landmarks, p   *)
(* at the even (0-based) rows and q at the odd ones.                       *)
(***************************************************************************)
Zero == Fin(0, 1)
Coords(size) ==
    {Fin(h, 2 * size) : h \in (-MaxHalf)..MaxHalf}
        \cup {Fin(1, 1), NaN, PosBig, NegBig}
Points(size) ==
    {<<c, Zero>> : c \in Coords(size)}
        \cup {<<Zero, Fin(3, 2 * size)>>, <<NaN, NaN>>}
LabelPoints(size) ==
    {<<c, Zero>> : c \in {Zero, Fin(3, 2 * size), Fin(1, 1), PosBig}}
        \cup {<<Zero, Fin(3, 2 * size)>>}
Sizes == {1, SmallSize, DefaultSize}
LenPairs == {<<HEnd, HEnd>>, <<0, HEnd>>, <<HEnd, 0>>, <<0, 0>>,
             <<RLEnd + 6, HEnd>>, <<HEnd, RLEnd + 6>>}
Landmarks(g) == [i \in 1..g.n |-> IF i % 2 = 1 THEN g.p ELSE g.q]

VARIABLES
    m_pc,       \* "call" | "scaled" | "returned" | "raised" | "idle"
    m_out,      \* the argument out, as [n, p, q]
    m_label,    \* the argument label, as [n, p, q]
    m_size,     \* the argument size
    m_heart,    \* the argument heart
    m_build,    \* the build the conversion ran on
    m_target,   \* the local target (pixels), once computed
    m_pred,     \* the local pred (pixels), once computed
    m_res       \* the values returned

hdvars == <<m_pc, m_out, m_label, m_size, m_heart, m_build, m_target, m_pred, m_res>>

NoGen == [n |-> 0, p |-> <<Zero, Zero>>, q |-> <<Zero, Zero>>]

HDIdle ==
    /\ m_pc = "idle"
    /\ m_out = NoGen
    /\ m_label = NoGen
    /\ m_size = 1
    /\ m_heart = FALSE
    /\ m_build = "none"
    /\ m_target = <<>>
    /\ m_pred = <<>>
    /\ m_res = <<>>

(***************************************************************************)
(* Numbers of the training loop.  A float is modelled exactly, as          *)
(* (hi * 1e12 + lo) / den with integers hi, lo and den > 0; den = 0 is     *)
(* infinity.  lo / den stays far below 1e12 within the bounds, so the      *)
(* order is decided by hi first.                                           *)
(***************************************************************************)
RECURSIVE GCD(_, _)
GCD(a, b) == IF b = 0 THEN a ELSE GCD(b, a % b)

Norm(x) ==
    LET g == GCD(GCD(Abs(x.hi), Abs(x.lo)), x.den)
    IN  IF x.den = 0 THEN [hi |-> 0, lo |-> 1, den |-> 0]
        ELSE [hi |-> x.hi \div g, lo |-> x.lo \div g, den |-> x.den \div g]
Num(hi, lo, den) == Norm([hi |-> hi, lo |-> lo, den |-> den])
Q(n, d) == Num(0, n, d)
NInf == Num(0, 1, 0)
NAdd(a, b) ==
    IF a.den = 0 \/ b.den = 0 THEN NInf
    ELSE Num(a.hi * b.den + b.hi * a.den, a.lo * b.den + b.lo * a.den, a.den * b.den)
NSub(a, b) == NAdd(a, [b EXCEPT !.hi = -b.hi, !.lo = -b.lo])
\* the product of two numbers below 1e12
NMul(a, b) == Num(0, a.lo * b.lo, a.den * b.den)
NScale(a, k) == IF a.den = 0 THEN NInf ELSE Num(a.hi * k, a.lo * k, a.den)
NDiv(a, n) == IF a.den = 0 THEN NInf ELSE Num(a.hi, a.lo, a.den * n)
NLess(a, b) ==
    LET h == a.hi * b.den - b.hi * a.den
    IN  h < 0 \/ (h = 0 /\ a.lo * b.den < b.lo * a.den)
NLessEq(a, b) == ~NLess(b, a)

(***************************************************************************)
(* trainer.py: tensors, losses and the batches the loaders yield.          *)
(*                                                                         *)
(* A training tensor is the flat sequence of its elements, one sample per  *)
(* batch.  The training batches are those of the 4-node graph pooled to 2  *)
(* nodes; the validation batches hold the 94 or 120 landmarks.             *)
(***************************************************************************)
\* bounds of the runs
MaxEpochs == 4
MaxBatches == 2
\* epochs * (train batches + validation batches) of one run
MaxSteps == 8
\* epochs * validation batches of one run
MaxValSteps == 4

T(s) == [i \in 1..Len(s) |-> Q(s[i], 1)]

RECURSIVE NSum(_)
NSum(s) == IF s = <<>> THEN Q(0, 1) ELSE NAdd(Head(s), NSum(Tail(s)))
Mean(s) == NDiv(NSum(s), Len(s))

\* F.mse_loss(a, b), for tensors of one shape
mse_loss(a, b) ==
    Mean([i \in 1..Len(a) |-> NMul(NSub(a[i], b[i]), NSub(a[i], b[i]))])

\* Pool()(x, D): x of shape (1, N, 2), D of shape (N', N); the result has
\* shape (1, N', 2), row i being the D[i]-weighted sum of the rows of x
Pool(x, D) ==
    [k \in 1..(2 * Len(D)) |->
        LET i == (k + 1) \div 2
            c == k - 2 * (i - 1)
        IN  NSum([j \in 1..Len(D[i]) |-> NMul(D[i][j], x[2 * (j - 1) + c])])]

\* exp() on the log-variances the batches hold
Exp(x) == CASE x = Q(0, 1) -> Q(1, 1)

\* -0.5 * torch.mean(torch.mean(1 + log_var - mu ** 2 - log_var.exp(), dim=1), dim=0)
KldLoss(mu, log_var) ==
    NDiv(NScale(
        Mean([b \in 1..Len(mu) |->
            Mean([l \in 1..Len(mu[b]) |->
                NSub(NSub(NAdd(Q(1, 1), log_var[b][l]), NMul(mu[b][l], mu[b][l])),
                     Exp(log_var[b][l]))])]),
        -1), 2)

\* the target of a training batch and the model's attributes
TrainTarget == T(<<0, 0, 0, 2, 4, 0, 4, 2>>)
Half == Q(1, 2)
DownsampleMatrix == <<<<Half, Half, Q(0, 1), Q(0, 1)>>, <<Q(0, 1), Q(0, 1), Half, Half>>>>
KldWeight == Q(1, 4)
Mu == <<<<Q(2, 1), Q(0, 1)>>>>
LogVar == <<<<Q(0, 1), Q(0, 1)>>>>

\* what model(image) returns: [type, items]
Tensor(t) == [type |-> "Tensor", items |-> <<t>>]
Tuple(ts) == [type |-> "tuple", items |-> ts]
List(ts) == [type |-> "list", items |-> ts]
NoOut == [type |-> "none", items |-> <<>>]
\* out = "bestMSE.pt": the name out is bound to the file name
FileName == [type |-> "str", items |-> <<>>]

\* the well-formed output of the model on a training batch, d its error
GoodTrainOut(m, d) ==
    IF m = "HybridGNet"
    THEN Tuple(<<T(<<d, 0, 0, 2, 4, 0, 4, 2>>),
                 T(<<0, 1, 4, 1 + 2 * d>>),
                 T(<<0, 0, 0, 2, 4, 0, 4, 2 + 2 * d>>)>>)
    ELSE Tensor(T(<<2 * d, 0, 0, 2, 4, 0, 4, 2>>))

\* outputs that are neither a tensor nor a 3-tuple
BadTrainOuts ==
    {Tuple(<<TrainTarget>>),
     Tuple(<<TrainTarget, TrainTarget>>),
     Tuple(<<TrainTarget, T(<<0, 1, 4, 1>>), TrainTarget, TrainTarget>>),
     List(<<TrainTarget, TrainTarget, TrainTarget>>)}

\* the branch of lines 73-95 an output takes
OutputBranchLoose(o) ==
    IF o.type # "tuple" THEN "single"
    ELSE IF Len(o.items) >= 3 THEN "triple"
    ELSE "single"

OutputBranch(o) ==
    IF o.type # "tuple" THEN "single"
    ELSE IF Len(o.items) = 3 THEN "triple"
    ELSE "other"

\* loss = outloss + pre1loss + pre2loss; loss += model.kld_weight * kld_loss
TotalLossNoAux(ol, pre1loss, pre2loss, kld_weight, kld_loss) ==
    NAdd(ol, NMul(kld_weight, kld_loss))

TotalLoss(ol, pre1loss, pre2loss, kld_weight, kld_loss) ==
    NAdd(NAdd(NAdd(ol, pre1loss), pre2loss), NMul(kld_weight, kld_loss))

\* lines 73-95: [err, outloss, loss]
TrainLosses(o, target) ==
    LET br == OutputBranch(o)
        zero == Q(0, 1)
    IN  CASE br = "single" ->
               IF o.type # "Tensor"
               THEN [err |-> "TypeError", outloss |-> zero, loss |-> zero]
               ELSE LET ol == mse_loss(o.items[1], target)
                    IN  [err |-> "none", outloss |-> ol, loss |-> ol]
          [] br = "triple" ->
               LET target_down == Pool(target, DownsampleMatrix)
                   pre1loss == mse_loss(o.items[2], target_down)
                   pre2loss == mse_loss(o.items[3], target)
                   ol == mse_loss(o.items[1], target)
               IN  [err |-> "none", outloss |-> ol,
                    loss |-> TotalLoss(ol, pre1loss, pre2loss, KldWeight,
                                       KldLoss(Mu, LogVar))]
          [] OTHER ->
               [err |-> "Error unpacking outputs", outloss |-> zero, loss |-> zero]

\* the value train_rec_loss_avg[-1] receives for a batch (line 97)
RecTerm(ol, l) == ol

(***************************************************************************)
(* The validation batches.  Batch f of the loader's fixtures has the       *)
(* prediction f + r pixels off the target in region r (0 right lung, 1     *)
(* left lung, 2 heart); mean_squared_error (sklearn) of the batch is the   *)
(* f-th of ValLosses.                                                      *)
(***************************************************************************)
\* 0.2, 0.3, 0.4, 0.5 and 1e12
ValLosses == <<Q(1, 5), Q(3, 10), Q(2, 5), Q(1, 2), Num(1, 0, 1)>>
StepSizes == {1, 2}
ValBatchSizes == {1, 2}
Models == {"HybridGNet", "PCA_FC"}

\* landmarks per sample: the datasets are built with heart = not Lungs
NLand(Lungs) == IF Lungs THEN LLEnd ELSE HEnd
RegionOf(i) == IF i <= RLEnd THEN 0 ELSE IF i <= LLEnd THEN 1 ELSE 2
ValSample(f, n) == [i \in 1..n |-> <<Fin(f + RegionOf(i), DefaultSize), Zero>>]
ValTargetSample(n) == [i \in 1..n |-> <<Zero, Zero>>]
\* a tensor of B samples, each held as [f, n]: the n landmarks ValSample(f, n)
ValPrimary(f, B, n) == [s \in 1..B |-> [f |-> f, n |-> n]]
SamplePoints(d) == IF d.f = 0 THEN ValTargetSample(d.n) ELSE ValSample(d.f, d.n)
GoodValOut(m, f, B, n) ==
    IF m = "HybridGNet"
    THEN Tuple(<<ValPrimary(f, B, n), ValPrimary(f, B, n), ValPrimary(f, B, n)>>)
    ELSE Tensor(ValPrimary(f, B, n))
BadValOut(B, n) == Tuple(<<ValPrimary(1, B, n)>>)

\* len(out): the first dimension of a tensor, the length of a tuple
PyLen(o) == IF o.type = "Tensor" THEN Len(o.items[1]) ELSE Len(o.items)

\* if len(out) > 1: out = out[0]
FirstIfMany(o) ==
    IF PyLen(o) > 1
    THEN IF o.type = "Tensor" THEN Tensor(<<o.items[1][1]>>)
         ELSE Tensor(o.items[1])
    ELSE o

\* x.reshape(-1, 2) of a tensor of samples: the points of all its samples
ReshapePoints(samples) ==
    IF samples = <<>> THEN <<>>
    ELSE LET n == samples[1].n
         IN  [i \in 1..(Len(samples) * n) |->
                 SamplePoints(samples[((i - 1) \div n) + 1])[((i - 1) % n) + 1]]

Root(n) == CHOOSE r \in 0..n : r * r = n
DistNum(d) == IF d.inf THEN NInf ELSE Q(Root(d.d2), 1)

\* lines 129-134: the average of the values hd_landmarks returned
RegionAverage(vals, Lungs) ==
    IF Lungs
    THEN NDiv(NAdd(DistNum(vals[1]), DistNum(vals[2])), 2)
    ELSE NDiv(NAdd(NAdd(DistNum(vals[1]), DistNum(vals[2])), DistNum(vals[3])), 3)

\* lines 120-141 for one batch: [err, dist]; dist is what line 136
\* added to val_hd_avg[-1] before any later line raised
ValBatchResult(o, B, Lungs, build) ==
    LET zero == Q(0, 1)
        sel == FirstIfMany(o)
        n == NLand(Lungs)
        target == ReshapePoints([s \in 1..B |-> [f |-> 0, n |-> n]])
    IN  IF sel.type # "Tensor"
        THEN [err |-> "AttributeError", dist |-> zero]
        ELSE LET pts == ReshapePoints(sel.items[1])
                 hd == hd_landmarks(pts, target, DefaultSize, ~Lungs, build)
             IN  IF hd.err # "none"
                 THEN [err |-> hd.err, dist |-> zero]
                 ELSE IF Len(hd.vals) # (IF Lungs THEN 2 ELSE 3)
                 THEN [err |-> "ValueError", dist |-> zero]
                 ELSE IF Len(pts) # Len(target)
                 THEN [err |-> "ValueError", dist |-> RegionAverage(hd.vals, Lungs)]
                 ELSE [err |-> "none", dist |-> RegionAverage(hd.vals, Lungs)]

(***************************************************************************)
(* trainer(): the state of a run.                                          *)
(***************************************************************************)
VARIABLES
    pc,                 \* the place of the run in trainer()
    config,             \* config: [epochs, Lungs, stepsize, val_batch_size]
    model,              \* the model given: "HybridGNet" or "PCA_FC"
    n_train,            \* batches train_loader yields per epoch
    n_val,              \* batches val_loader yields per epoch
    epoch,              \* the loop variable epoch
    it,                 \* batches the running loader iteration has yielded
    num_batches,
    train_loss_avg,
    train_rec_loss_avg,
    val_loss_avg,
    val_hd_avg,
    best,
    out,                \* the model output of the batch in hand
    outloss,
    loss,
    grads,              \* the batches <<epoch, it>> whose gradients .grad holds
    params,             \* the model parameters: the optimizer steps applied
    last_epoch,         \* scheduler.last_epoch
    decays,             \* the factors gamma in the optimizer's rate: lr * gamma^decays
    writer,             \* the scalars written to the SummaryWriter, in order
    saved,              \* the torch.save calls, in order: [file, epoch, params]
    err,                \* the exception that left trainer(), or "none"
    folder,             \* the run directory Training/<name> on disk
    exc                 \* the exception os.mkdir raised, until it is handled

tvars == <<pc, config, model, n_train, n_val, epoch, it, num_batches,
           train_loss_avg, train_rec_loss_avg, val_loss_avg, val_hd_avg, best,
           out, outloss, loss, grads, params, last_epoch, decays, writer, saved,
           err, folder, exc>>

\* the run directory and the exception of its creation
dirvars == <<folder, exc>>

(***************************************************************************)
(* __main__ and the device of each tensor of the run.                      *)
(***************************************************************************)
VARIABLES
    main_pc,            \* the place of the run in __main__ and in trainer()
    cuda,               \* torch.cuda.is_available()
    args_model,         \* config['model']
    cfg_device,         \* config['device']
    A_t,                \* the device of the graph matrices A_t, D_t, U_t
    model_dev,          \* the device of the model's parameters
    device,             \* trainer()'s device
    batch_dev,          \* the device of image and target of the batch in hand
    main_n,             \* batches each loader yields
    main_it,            \* batches the running loader iteration has yielded
    main_err            \* the exception that left the run, or "none"

mainvars == <<main_pc, cuda, args_model, cfg_device, A_t, model_dev, device,
              batch_dev, main_n, main_it, main_err>>

vars == <<hdvars, tvars, mainvars>>

\* __main__ is not running
MainIdle ==
    /\ main_pc = "idle"
    /\ cuda = FALSE
    /\ args_model = "HybridGNet"
    /\ cfg_device = "none"
    /\ A_t = "none"
    /\ model_dev = "none"
    /\ device = "none"
    /\ batch_dev = "none"
    /\ main_n = 0
    /\ main_it = 0
    /\ main_err = "none"

Zero0 == Q(0, 1)
\* best = 1e12
BestInit == Num(1, 0, 1)

Configs ==
    [epochs : 0..MaxEpochs, Lungs : BOOLEAN, stepsize : StepSizes,
     val_batch_size : ValBatchSizes]

TrainerIdle ==
    /\ pc = "idle"
    /\ config = [epochs |-> 0, Lungs |-> FALSE, stepsize |-> 1, val_batch_size |-> 1]
    /\ model = "PCA_FC"
    /\ n_train = 0
    /\ n_val = 0
    /\ epoch = 0
    /\ it = 0
    /\ num_batches = 0
    /\ train_loss_avg = <<>>
    /\ train_rec_loss_avg = <<>>
    /\ val_loss_avg = <<>>
    /\ val_hd_avg = <<>>
    /\ best = BestInit
    /\ out = NoOut
    /\ outloss = Zero0
    /\ loss = Zero0
    /\ grads = {}
    /\ params = 0
    /\ last_epoch = 0
    /\ decays = 0
    /\ writer = <<>>
    /\ saved = <<>>
    /\ err = "none"
    /\ folder = "exists"
    /\ exc = "none"

\* the run directory before the run: not there (its parent is), there
\* already, or not there and neither is its parent Training
Folders == {"absent", "exists", "noparent"}

\* trainer() is entered: nothing of lines 25-58 has run yet
Init ==
    /\ HDIdle
    /\ MainIdle
    /\ pc = "entry"
    /\ config \in Configs
    /\ model \in Models
    /\ n_train \in 0..MaxBatches
    /\ n_val \in 0..MaxBatches
    /\ config.epochs * (n_train + n_val) <= MaxSteps
    /\ config.epochs * n_val <= MaxValSteps
    /\ epoch = 0
    /\ it = 0
    /\ num_batches = 0
    /\ train_loss_avg = <<>>
    /\ train_rec_loss_avg = <<>>
    /\ val_loss_avg = <<>>
    /\ val_hd_avg = <<>>
    /\ best = BestInit
    /\ out = NoOut
    /\ outloss = Zero0
    /\ loss = Zero0
    /\ grads = {}
    /\ params = 0
    /\ last_epoch = 0
    /\ decays = 0
    /\ writer = <<>>
    /\ saved = <<>>
    /\ err = "none"
    /\ folder \in Folders
    /\ exc = "none"

\* the statement order of lines 25-162: the place after place p is left in
\* the normal way (a loop whose iterator is exhausted, for "train" and "val")
AfterSchedFirst(p) ==
    CASE p = "entry" -> "mkdir"
      [] p = "mkdir" -> "setup"
      [] p = "except" -> "setup"
      [] p = "setup" -> "head"
      [] p = "t_zero" -> "t_loss"
      [] p = "t_loss" -> "t_acc"
      [] p = "t_acc" -> "t_back"
      [] p = "t_back" -> "t_step"
      [] p = "t_step" -> "train"
      [] p = "train" -> "val"
      [] p = "val" -> "log"
      [] p = "log" -> "sched"
      [] p = "sched" -> "check"
      [] p = "check" -> "head"
      [] p = "final" -> "done"

After(p) ==
    CASE p = "entry" -> "mkdir"
      [] p = "mkdir" -> "setup"
      [] p = "except" -> "setup"
      [] p = "setup" -> "head"
      [] p = "t_zero" -> "t_loss"
      [] p = "t_loss" -> "t_acc"
      [] p = "t_acc" -> "t_back"
      [] p = "t_back" -> "t_step"
      [] p = "t_step" -> "train"
      [] p = "train" -> "val"
      [] p = "val" -> "log"
      [] p = "log" -> "check"
      [] p = "check" -> "sched"
      [] p = "sched" -> "head"
      [] p = "final" -> "done"

\* for epoch in range(config['epochs'])
InRangeShort(e, epochs) == e + 1 < epochs

InRange(e, epochs) == e < epochs

\* val_loss_avg[-1] < best
IsBetterOrEqual(v, b) == NLessEq(v, b)

IsBetter(v, b) == NLess(v, b)

\* an exception leaves trainer(): no handler encloses the loop
RaiseSwallowed(e) == pc' = "final" /\ err' = e

Raise(e) == pc' = "aborted" /\ err' = e

\* x[0] = ... in place of x[-1] = ...
SetFirst(s, v) == [s EXCEPT ![1] = v]

SetLast(s, v) == [s EXCEPT ![Len(s)] = v]
Last(s) == s[Len(s)]

(***************************************************************************)
(* trainer(): the steps.                                                   *)
(***************************************************************************)
\* lines 25-44: seed, device, loaders, optimizer and the empty histories
Enter ==
    /\ pc = "entry"
    /\ pc' = After("entry")
    /\ train_loss_avg' = <<>>
    /\ train_rec_loss_avg' = <<>>
    /\ val_loss_avg' = <<>>
    /\ val_hd_avg' = <<>>
    /\ UNCHANGED <<hdvars, mainvars, dirvars, config, model, n_train, n_val, epoch, it,
                   num_batches, best, out, outloss, loss, grads, params,
                   last_epoch, decays, writer, saved, err>>

\* os.mkdir(folder) creates the directory if it is absent and its parent is
\* there, and raises otherwise
MkdirError(fs) ==
    CASE fs = "exists" -> "FileExistsError"
      [] fs = "noparent" -> "FileNotFoundError"

\* lines 46-47: try: os.mkdir(folder)
Mkdir ==
    /\ pc = "mkdir"
    /\ IF folder = "absent"
       THEN /\ folder' = "exists"
            /\ pc' = After("mkdir")
            /\ exc' = exc
       ELSE /\ exc' = MkdirError(folder)
            /\ pc' = "except"
            /\ folder' = folder
    /\ UNCHANGED <<hdvars, mainvars, config, model, n_train, n_val, epoch, it, num_batches,
                   train_loss_avg, train_rec_loss_avg, val_loss_avg, val_hd_avg,
                   best, out, outloss, loss, grads, params, last_epoch, decays, writer,
                   saved, err>>

\* except: (line 48) matches every exception
Catches(ex) == TRUE

\* lines 48-49: except: pass
MkdirExcept ==
    /\ pc = "except"
    /\ IF Catches(exc)
       THEN /\ pc' = After("except")
            /\ err' = err
       ELSE Raise(exc)
    /\ exc' = "none"
    /\ UNCHANGED <<hdvars, mainvars, folder, config, model, n_train, n_val, epoch, it,
                   num_batches, train_loss_avg, train_rec_loss_avg, val_loss_avg,
                   val_hd_avg, best, out, outloss, loss, grads, params,
                   last_epoch, decays, writer, saved>>

\* lines 51-58: writer (SummaryWriter makes log_dir and its parents when they
\* are absent), best, scheduler, pool
Setup ==
    /\ pc = "setup"
    /\ pc' = After("setup")
    /\ folder' = "exists"
    /\ writer' = <<>>
    /\ best' = BestInit
    /\ last_epoch' = 0
    /\ decays' = 0
    /\ UNCHANGED <<hdvars, mainvars, exc, config, model, n_train, n_val, epoch, it,
                   num_batches, train_loss_avg, train_rec_loss_avg, val_loss_avg,
                   val_hd_avg, out, outloss, loss, grads, params, saved, err>>

\* lines 60-65: the loop head; one more epoch starts, or the loop is left
EpochHead ==
    /\ pc = "head"
    /\ IF InRange(epoch, config.epochs)
       THEN /\ train_loss_avg' = Append(train_loss_avg, Zero0)
            /\ train_rec_loss_avg' = Append(train_rec_loss_avg, Zero0)
            /\ num_batches' = 0
            /\ it' = 0
            /\ pc' = "train"
       ELSE /\ pc' = "final"
            /\ UNCHANGED <<train_loss_avg, train_rec_loss_avg, num_batches, it>>
    /\ UNCHANGED <<hdvars, mainvars, dirvars, config, model, n_train, n_val, epoch, val_loss_avg,
                   val_hd_avg, best, out, outloss, loss, grads, params,
                   last_epoch, decays, writer, saved, err>>

\* lines 67-69: the loader yields a batch and the model is run on it
TrainForward ==
    /\ pc = "train"
    /\ it < n_train
    /\ out' \in {GoodTrainOut(model, 1 + ((epoch + it) % 2))} \cup BadTrainOuts
    /\ pc' = "t_zero"
    /\ UNCHANGED <<hdvars, mainvars, dirvars, config, model, n_train, n_val, epoch, it, num_batches,
                   train_loss_avg, train_rec_loss_avg, val_loss_avg, val_hd_avg,
                   best, outloss, loss, grads, params, last_epoch, decays, writer, saved,
                   err>>

\* the batch without optimizer.zero_grad(): .grad keeps what it holds
ZeroGradNone ==
    /\ pc = "t_zero"
    /\ pc' = After("t_zero")
    /\ UNCHANGED <<hdvars, mainvars, dirvars, config, model, n_train, n_val, epoch, it, num_batches,
                   train_loss_avg, train_rec_loss_avg, val_loss_avg, val_hd_avg,
                   best, out, outloss, loss, grads, params, last_epoch, decays, writer,
                   saved, err>>

\* line 71: optimizer.zero_grad()
ZeroGrad ==
    /\ pc = "t_zero"
    /\ grads' = {}
    /\ pc' = After("t_zero")
    /\ UNCHANGED <<hdvars, mainvars, dirvars, config, model, n_train, n_val, epoch, it, num_batches,
                   train_loss_avg, train_rec_loss_avg, val_loss_avg, val_hd_avg,
                   best, out, outloss, loss, params, last_epoch, decays, writer, saved,
                   err>>

\* the outputs a train batch can have, each with the result of lines 73-95
TrainOuts == {GoodTrainOut(m, d) : m \in Models, d \in 1..2} \cup BadTrainOuts
TrainBatches == {[out |-> o, res |-> TrainLosses(o, TrainTarget)] : o \in TrainOuts}

\* lines 73-95: the losses of the batch, or the exception
TrainLoss ==
    /\ pc = "t_loss"
    /\ \E b \in {x \in TrainBatches : x.out = out} :
         LET r == b.res
         IN
           IF r.err = "none"
           THEN /\ outloss' = r.outloss
                /\ loss' = r.loss
                /\ pc' = After("t_loss")
                /\ err' = err
           ELSE /\ Raise(r.err)
                /\ UNCHANGED <<outloss, loss>>
    /\ UNCHANGED <<hdvars, mainvars, dirvars, config, model, n_train, n_val, epoch, it, num_batches,
                   train_loss_avg, train_rec_loss_avg, val_loss_avg, val_hd_avg,
                   best, out, grads, params, last_epoch, decays, writer, saved>>

\* lines 97-98
TrainAccumulate ==
    /\ pc = "t_acc"
    /\ train_rec_loss_avg' =
         SetLast(train_rec_loss_avg, NAdd(Last(train_rec_loss_avg), RecTerm(outloss, loss)))
    /\ train_loss_avg' = SetLast(train_loss_avg, NAdd(Last(train_loss_avg), loss))
    /\ pc' = After("t_acc")
    /\ UNCHANGED <<hdvars, mainvars, dirvars, config, model, n_train, n_val, epoch, it, num_batches,
                   val_loss_avg, val_hd_avg, best, out, outloss, loss, grads,
                   params, last_epoch, decays, writer, saved, err>>

\* line 100: loss.backward() adds the batch's gradients to .grad
Backward ==
    /\ pc = "t_back"
    /\ grads' = grads \cup {<<epoch, it>>}
    /\ pc' = After("t_back")
    /\ UNCHANGED <<hdvars, mainvars, dirvars, config, model, n_train, n_val, epoch, it, num_batches,
                   train_loss_avg, train_rec_loss_avg, val_loss_avg, val_hd_avg,
                   best, out, outloss, loss, params, last_epoch, decays, writer, saved,
                   err>>

\* lines 103-105: optimizer.step(); num_batches += 1; on to the next batch
OptimizerStep ==
    /\ pc = "t_step"
    /\ params' = params + 1
    /\ num_batches' = num_batches + 1
    /\ it' = it + 1
    /\ pc' = After("t_step")
    /\ UNCHANGED <<hdvars, mainvars, dirvars, config, model, n_train, n_val, epoch, train_loss_avg,
                   train_rec_loss_avg, val_loss_avg, val_hd_avg, best, out,
                   outloss, loss, grads, last_epoch, decays, writer, saved, err>>

\* lines 107-116: the train loader is exhausted; the epoch's train averages
\* (int 0 / 0 raises ZeroDivisionError), then the validation accumulators
TrainAverage ==
    /\ pc = "train"
    /\ it = n_train
    /\ IF num_batches = 0
       THEN /\ Raise("ZeroDivisionError")
            /\ UNCHANGED <<train_loss_avg, train_rec_loss_avg, num_batches, it,
                           val_loss_avg, val_hd_avg>>
       ELSE /\ train_loss_avg' =
                 SetLast(train_loss_avg, NDiv(Last(train_loss_avg), num_batches))
            /\ train_rec_loss_avg' =
                 SetLast(train_rec_loss_avg, NDiv(Last(train_rec_loss_avg), num_batches))
            /\ num_batches' = 0
            /\ it' = 0
            /\ val_loss_avg' = Append(val_loss_avg, Zero0)
            /\ val_hd_avg' = Append(val_hd_avg, Zero0)
            /\ pc' = After("train")
            /\ err' = err
    /\ UNCHANGED <<hdvars, mainvars, dirvars, config, model, n_train, n_val, epoch, best, out,
                   outloss, loss, grads, params, last_epoch, decays, writer, saved>>

\* the batches val_loader can yield under a configuration, f = 0 being the
\* batch on which the model returns a 1-tuple, and lines 120-141 for each
ValOut(m, f, B, Lungs) ==
    IF f = 0 THEN BadValOut(B, NLand(Lungs)) ELSE GoodValOut(m, f, B, NLand(Lungs))
ValBatches ==
    {[key |-> <<m, f, B, Lungs, build>>,
      out |-> FirstIfMany(ValOut(m, f, B, Lungs)),
      res |-> ValBatchResult(ValOut(m, f, B, Lungs), B, Lungs, build)] :
        m \in Models, f \in 0..Len(ValLosses), B \in ValBatchSizes,
        Lungs \in BOOLEAN, build \in Builds}

\* lines 119-141: one validation batch
ValBatch ==
    /\ pc = "val"
    /\ it < n_val
    /\ \E f \in 0..Len(ValLosses), build \in Builds :
         \E b \in {x \in ValBatches :
                      x.key = <<model, f, config.val_batch_size, config.Lungs, build>>} :
         LET r == b.res
         IN  /\ out' = b.out
             /\ val_hd_avg' = SetLast(val_hd_avg, NAdd(Last(val_hd_avg), r.dist))
             /\ IF r.err = "none"
                THEN /\ val_loss_avg' =
                          SetLast(val_loss_avg, NAdd(Last(val_loss_avg), ValLosses[f]))
                     /\ num_batches' = num_batches + 1
                     /\ it' = it + 1
                     /\ pc' = "val"
                     /\ err' = err
                ELSE /\ Raise(r.err)
                     /\ UNCHANGED <<val_loss_avg, num_batches, it>>
    /\ UNCHANGED <<hdvars, mainvars, dirvars, config, model, n_train, n_val, epoch, train_loss_avg,
                   train_rec_loss_avg, best, outloss, loss, grads, params,
                   last_epoch, decays, writer, saved>>

\* lines 143-144 with a division that does not raise on a zero count
ValAverageNoRaise ==
    /\ pc = "val"
    /\ it = n_val
    /\ IF num_batches = 0
       THEN UNCHANGED <<val_loss_avg, val_hd_avg>>
       ELSE /\ val_loss_avg' = SetLast(val_loss_avg, NDiv(Last(val_loss_avg), num_batches))
            /\ val_hd_avg' = SetLast(val_hd_avg, NDiv(Last(val_hd_avg), num_batches))
    /\ pc' = After("val")
    /\ UNCHANGED <<hdvars, mainvars, dirvars, config, model, n_train, n_val, epoch, it,
                   num_batches, train_loss_avg, train_rec_loss_avg, best, out,
                   outloss, loss, grads, params, last_epoch, decays, writer,
                   saved, err>>

\* lines 143-144: the validation loader is exhausted; the epoch's averages
ValAverage ==
    /\ pc = "val"
    /\ it = n_val
    /\ IF num_batches = 0
       THEN /\ Raise("ZeroDivisionError")
            /\ UNCHANGED <<val_loss_avg, val_hd_avg>>
       ELSE /\ val_loss_avg' = SetLast(val_loss_avg, NDiv(Last(val_loss_avg), num_batches))
            /\ val_hd_avg' = SetLast(val_hd_avg, NDiv(Last(val_hd_avg), num_batches))
            /\ pc' = After("val")
            /\ err' = err
    /\ UNCHANGED <<hdvars, mainvars, dirvars, config, model, n_train, n_val, epoch, it, num_batches,
                   train_loss_avg, train_rec_loss_avg, best, out, outloss, loss,
                   grads, params, last_epoch, decays, writer, saved>>

\* add_scalar(tag, value) without the step
ScalarNoStep(tag, value, step) == [tag |-> tag, value |-> value, step |-> 0]

Scalar(tag, value, step) == [tag |-> tag, value |-> value, step |-> step]

\* lines 148-152: the four scalars of the epoch
LogMetrics ==
    /\ pc = "log"
    /\ writer' = writer \o
         <<Scalar("Train/Loss", Last(train_loss_avg), epoch),
           Scalar("Train/MSE", NScale(Last(train_rec_loss_avg), 1024 * 1024), epoch),
           Scalar("Validation/MSE", NScale(Last(val_loss_avg), 1024 * 1024), epoch),
           Scalar("Validation/Hausdorff Distance", Last(val_hd_avg), epoch)>>
    /\ pc' = After("log")
    /\ UNCHANGED <<hdvars, mainvars, dirvars, config, model, n_train, n_val, epoch, it, num_batches,
                   train_loss_avg, train_rec_loss_avg, val_loss_avg, val_hd_avg,
                   best, out, outloss, loss, grads, params, last_epoch, decays, saved,
                   err>>

\* torch.save of the state the model was constructed with
SaveInitial(file) == [file |-> file, epoch |-> epoch, params |-> 0]

\* torch.save(model.state_dict(), ...): the parameters as they are now
Save(file) == [file |-> file, epoch |-> epoch, params |-> params]

\* lines 154-158: the best checkpoint
CheckBest ==
    /\ pc = "check"
    /\ IF IsBetter(Last(val_loss_avg), best)
       THEN /\ best' = Last(val_loss_avg)
            /\ out' = FileName
            /\ saved' = Append(saved, Save("bestMSE.pt"))
       ELSE UNCHANGED <<best, out, saved>>
    /\ pc' = After("check")
    /\ UNCHANGED <<hdvars, mainvars, dirvars, config, model, n_train, n_val, epoch, it, num_batches,
                   train_loss_avg, train_rec_loss_avg, val_loss_avg, val_hd_avg,
                   outloss, loss, grads, params, last_epoch, decays, writer, err>>

\* a schedule that decays the rate at every step
StepLREvery(d, n, step_size) == d + 1

\* StepLR.step() has set last_epoch to n: the rate is multiplied by gamma when
\* n is a multiple of step_size, and is left as it is otherwise
StepLR(d, n, step_size) == IF n % step_size = 0 THEN d + 1 ELSE d

\* line 160: scheduler.step(), and on to the next epoch of the range
SchedulerStep ==
    /\ pc = "sched"
    /\ last_epoch' = last_epoch + 1
    /\ decays' = StepLR(decays, last_epoch + 1, config.stepsize)
    /\ epoch' = epoch + 1
    /\ pc' = After("sched")
    /\ UNCHANGED <<hdvars, mainvars, dirvars, config, model, n_train, n_val, it, num_batches,
                   train_loss_avg, train_rec_loss_avg, val_loss_avg, val_hd_avg,
                   best, out, outloss, loss, grads, params, writer, saved, err>>

\* line 162: torch.save(model.state_dict(), .../final.pt)
SaveFinal ==
    /\ pc = "final"
    /\ saved' = Append(saved, Save("final.pt"))
    /\ pc' = After("final")
    /\ UNCHANGED <<hdvars, mainvars, dirvars, config, model, n_train, n_val, epoch, it, num_batches,
                   train_loss_avg, train_rec_loss_avg, val_loss_avg, val_hd_avg,
                   best, out, outloss, loss, grads, params, last_epoch, decays, writer,
                   err>>

(***************************************************************************)
(* __main__ (lines 165-262) and the placement of tensors in trainer().     *)
(***************************************************************************)
ModelArgs == {"HybridGNet", "PCA", "FC", "other"}

\* a device a tensor can be moved to, given what the machine has
Available(dev, has_cuda) == dev = "cpu" \/ (dev = "cuda:0" /\ has_cuda)

\* Tensor.to('cuda:0') without an accelerator raises: AssertionError in a
\* torch built without CUDA, RuntimeError in one built with it
CudaErrors == {"AssertionError", "RuntimeError"}

\* torch.device("cuda:0" if torch.cuda.is_available() else "cpu")
SelectDevice(has_cuda) == IF has_cuda THEN "cuda:0" ELSE "cpu"

\* line 249: the device the graph matrices are sent to
MatrixDevice == "cuda:0"

InitMain ==
    /\ HDIdle
    /\ TrainerIdle
    /\ main_pc = "args"
    /\ cuda \in BOOLEAN
    /\ args_model \in ModelArgs
    /\ main_n \in 0..MaxBatches
    /\ cfg_device = "none"
    /\ A_t = "none"
    /\ model_dev = "none"
    /\ device = "none"
    /\ batch_dev = "none"
    /\ main_it = 0
    /\ main_err = "none"

\* lines 166-227: the arguments, the datasets, the defaults, config['device']
MainConfig ==
    /\ main_pc = "args"
    /\ cfg_device' = SelectDevice(cuda)
    /\ main_pc' = "model"
    /\ UNCHANGED <<hdvars, tvars, cuda, args_model, A_t, model_dev, device,
                   batch_dev, main_n, main_it, main_err>>

\* lines 229-260: the model of config['model']; a module is constructed with
\* its parameters on the CPU
MainModel ==
    /\ main_pc = "model"
    /\ IF args_model = "HybridGNet"
       THEN IF Available(MatrixDevice, cuda)
            THEN /\ A_t' = MatrixDevice
                 /\ model_dev' = "cpu"
                 /\ main_pc' = "trainer"
                 /\ main_err' = main_err
            ELSE /\ main_err' \in CudaErrors
                 /\ main_pc' = "aborted"
                 /\ UNCHANGED <<A_t, model_dev>>
       ELSE IF args_model \in {"PCA", "FC"}
            THEN /\ model_dev' = "cpu"
                 /\ main_pc' = "trainer"
                 /\ UNCHANGED <<A_t, main_err>>
            ELSE /\ main_err' = "No valid model"
                 /\ main_pc' = "aborted"
                 /\ UNCHANGED <<A_t, model_dev>>
    /\ UNCHANGED <<hdvars, tvars, cuda, args_model, cfg_device, device,
                   batch_dev, main_n, main_it>>

\* lines 262 and 25-28: trainer() is called and selects its device
TrainerDevice ==
    /\ main_pc = "trainer"
    /\ device' = SelectDevice(cuda)
    /\ main_pc' = "to"
    /\ UNCHANGED <<hdvars, tvars, cuda, args_model, cfg_device, A_t, model_dev,
                   batch_dev, main_n, main_it, main_err>>

\* line 30: model = model.to(device)
ModelTo ==
    /\ main_pc = "to"
    /\ model_dev' = device
    /\ main_pc' = "train"
    /\ UNCHANGED <<hdvars, tvars, cuda, args_model, cfg_device, A_t, device,
                   batch_dev, main_n, main_it, main_err>>

\* lines 67-68: a train batch is yielded on the CPU and moved to device
TrainBatchTo ==
    /\ main_pc = "train"
    /\ main_it < main_n
    /\ batch_dev' = device
    /\ main_it' = main_it + 1
    /\ UNCHANGED <<hdvars, tvars, main_pc, cuda, args_model, cfg_device, A_t,
                   model_dev, device, main_n, main_err>>

\* line 67: the train loader is exhausted
TrainBatchesEnd ==
    /\ main_pc = "train"
    /\ main_it = main_n
    /\ main_it' = 0
    /\ main_pc' = "val"
    /\ UNCHANGED <<hdvars, tvars, cuda, args_model, cfg_device, A_t, model_dev,
                   device, batch_dev, main_n, main_err>>

\* lines 119-120: a validation batch is yielded on the CPU and moved to device
ValBatchTo ==
    /\ main_pc = "val"
    /\ main_it < main_n
    /\ batch_dev' = device
    /\ main_it' = main_it + 1
    /\ UNCHANGED <<hdvars, tvars, main_pc, cuda, args_model, cfg_device, A_t,
                   model_dev, device, main_n, main_err>>

\* line 119: the validation loader is exhausted
ValBatchesEnd ==
    /\ main_pc = "val"
    /\ main_it = main_n
    /\ main_pc' = "done"
    /\ UNCHANGED <<hdvars, tvars, cuda, args_model, cfg_device, A_t, model_dev,
                   device, batch_dev, main_n, main_it, main_err>>

NextMain ==
    \/ MainConfig
    \/ MainModel
    \/ TrainerDevice
    \/ ModelTo
    \/ TrainBatchTo
    \/ TrainBatchesEnd
    \/ ValBatchTo
    \/ ValBatchesEnd

SpecMain == InitMain /\ [][NextMain]_vars

(***************************************************************************)
(* hd_landmarks() applied to the bounded inputs.                            *)
(***************************************************************************)
InitHD ==
    /\ m_pc = "call"
    /\ m_size \in Sizes
    /\ m_heart \in BOOLEAN
    /\ \E ln \in LenPairs :
         \E p \in Points(m_size), r \in LabelPoints(m_size) :
           \E q \in {p, <<Zero, Fin(3, 2 * m_size)>>} :
             /\ m_out = [n |-> ln[1], p |-> p, q |-> q]
             /\ m_label = [n |-> ln[2], p |-> r, q |-> r]
    /\ m_build = "none"
    /\ m_target = <<>>
    /\ m_pred = <<>>
    /\ m_res = <<>>
    /\ TrainerIdle
    /\ MainIdle

\* metrics.py 26-27
HdRescale ==
    /\ m_pc = "call"
    /\ \E build \in Builds :
         /\ m_build' = build
         /\ m_target' = Rescale(Landmarks(m_label), m_size, build)
         /\ m_pred' = Rescale(Landmarks(m_out), m_size, build)
    /\ m_pc' = "scaled"
    /\ UNCHANGED <<m_out, m_label, m_size, m_heart, m_res>>
    /\ UNCHANGED <<tvars, mainvars>>

\* metrics.py 29-36
HdRegions ==
    /\ m_pc = "scaled"
    /\ LET r == Regions(m_target, m_pred, m_size, m_heart)
       IN  /\ m_pc' = IF r.err = "none" THEN "returned" ELSE "raised"
           /\ m_res' = r.vals
    /\ UNCHANGED <<m_out, m_label, m_size, m_heart, m_build, m_target, m_pred>>
    /\ UNCHANGED <<tvars, mainvars>>

NextHD == HdRescale \/ HdRegions

Next ==
    \/ Enter
    \/ Mkdir
    \/ MkdirExcept
    \/ Setup
    \/ EpochHead
    \/ TrainForward
    \/ ZeroGrad
    \/ TrainLoss
    \/ TrainAccumulate
    \/ Backward
    \/ OptimizerStep
    \/ TrainAverage
    \/ ValBatch
    \/ ValAverage
    \/ LogMetrics
    \/ CheckBest
    \/ SchedulerStep
    \/ SaveFinal

Spec == Init /\ [][Next]_vars

SpecHD == InitHD /\ [][NextHD]_vars

(***************************************************************************)
(* Properties of trainer().                                                *)
(***************************************************************************)
\* the epochs (0-based) whose best-checkpoint check has been made
Checked == IF pc = "sched" THEN epoch + 1 ELSE epoch
\* the epochs in which bestMSE.pt was written
BestWrites == {saved[i].epoch : i \in {j \in 1..Len(saved) : saved[j].file = "bestMSE.pt"}}
FinalWrites == {i \in 1..Len(saved) : saved[i].file = "final.pt"}
\* the least of 1e12 and the validation losses of the epochs before epoch e
RECURSIVE RunMin(_)
RunMin(e) ==
    IF e = 0 THEN BestInit
    ELSE IF NLess(val_loss_avg[e], RunMin(e - 1)) THEN val_loss_avg[e] ELSE RunMin(e - 1)
\* the exceptions a batch raises
BatchErrors ==
    {"TypeError", "Error unpacking outputs", "AttributeError", "ValueError", "IndexError"}
TrainPlaces == {"train", "t_zero", "t_loss", "t_acc", "t_back", "t_step"}
Malformed(o) == ~(o.type = "Tensor" \/ (o.type = "tuple" /\ Len(o.items) = 3))

\* C1: bestMSE.pt is written at the end of an epoch if and only if the epoch's
\* averaged validation loss is strictly less than the least of 1e12 and the
\* losses of all earlier epochs, at most once per epoch; for the losses
\* 0.5, 0.3, 0.4, 0.2 it is written in the first, second and fourth epoch.
C1_BestIffStrictlyLess ==
    /\ \A e \in 0..(Checked - 1) :
         (e \in BestWrites) <=> NLess(val_loss_avg[e + 1], RunMin(e))
    /\ \A e \in BestWrites : e < Checked
    /\ \A i, j \in 1..Len(saved) :
         (saved[i].file = "bestMSE.pt" /\ saved[j].file = "bestMSE.pt" /\ i < j)
             => saved[i].epoch < saved[j].epoch
    /\ (Checked = 4 /\ val_loss_avg = <<Q(1, 2), Q(3, 10), Q(2, 5), Q(1, 5)>>)
         => BestWrites = {0, 1, 3}

C1_Witness ==
    /\ pc = "done"
    /\ val_loss_avg = <<Q(1, 2), Q(3, 10), Q(2, 5), Q(1, 5)>>
    /\ BestWrites = {0, 1, 3}

\* what a run that ended normally has done: config['epochs'] epochs, each
\* with all its train and validation batches, then final.pt, once and last
RanAllEpochs ==
    /\ epoch = config.epochs
    /\ last_epoch = config.epochs
    /\ Len(train_loss_avg) = config.epochs
    /\ Len(val_loss_avg) = config.epochs
    /\ params = config.epochs * n_train
    /\ Len(writer) = 4 * config.epochs
    /\ Cardinality(FinalWrites) = 1
    /\ saved[Len(saved)].file = "final.pt"
    /\ saved[Len(saved)].epoch = config.epochs
    /\ (config.epochs = 0 => BestWrites = {})

\* C2 as stated: if no batch raises, the run ends after exactly
\* config['epochs'] epochs and writes final.pt once, after the last epoch.
C2_Original ==
    /\ err \notin BatchErrors => pc # "aborted"
    /\ pc = "done" => RanAllEpochs

\* C2 as amended: the same, provided also that each loader yields at least one
\* batch (or epochs = 0).  Then the run never stops before its end, and at its
\* end it has run all epochs in full and written final.pt once and last; no
\* final.pt exists before.
C2_RunsAllEpochs ==
    /\ (err \notin BatchErrors /\ (config.epochs = 0 \/ (n_train >= 1 /\ n_val >= 1)))
         => /\ pc # "aborted"
            /\ pc # "done" => ENABLED Next
    /\ pc = "done" => RanAllEpochs
    /\ FinalWrites # {} => pc = "done"
    /\ epoch <= config.epochs

C2_Witness ==
    /\ pc = "done"
    /\ config.epochs = 2
    /\ n_train = 2
    /\ params = 4
    /\ Len(saved) >= 2

\* C3: in every epoch the places follow in the order train batches,
\* validation batches, metrics, best-checkpoint check, scheduler step; the
\* check and the scheduler step act once per epoch, the check after the last
\* validation batch and before the scheduler step, and an epoch starts only
\* after the scheduler step of the one before.
C3_Step ==
    /\ pc = "head" => (pc' \in {"train", "final"} /\ last_epoch = epoch)
    /\ pc \in TrainPlaces => pc' \in TrainPlaces \cup {"val", "aborted"}
    /\ (pc \in TrainPlaces /\ pc' = "val") => (pc = "train" /\ it = n_train)
    /\ pc = "val" => pc' \in {"val", "log", "aborted"}
    /\ (pc = "val" /\ pc' = "log") => it = n_val
    /\ pc = "log" => pc' = "check"
    /\ pc = "check" => pc' = "sched"
    /\ pc = "sched" => pc' = "head"
    /\ (best' # best \/ BestWrites' # BestWrites) => pc = "check"
    /\ last_epoch' # last_epoch => (pc = "sched" /\ last_epoch' = last_epoch + 1)
    /\ epoch' # epoch => (pc = "sched" /\ epoch' = epoch + 1)
    /\ pc \in TrainPlaces \cup {"val", "log", "check", "sched"} => last_epoch = epoch

C3_PhaseOrder == [][C3_Step]_vars

C3_Witness == pc = "sched" /\ epoch = 1 /\ last_epoch = 1 /\ Len(saved) = 2

\* C4: a train batch whose output is neither a tensor nor a 3-tuple raises:
\* the run is left at the loss computation with nothing accumulated, no
\* backward pass and no optimizer step for the batch, and nothing runs after.
C4_Step ==
    /\ (pc = "t_loss" /\ Malformed(out))
         => /\ pc' = "aborted"
            /\ err' \in BatchErrors
            /\ UNCHANGED <<train_loss_avg, train_rec_loss_avg, num_batches, it,
                           epoch, grads, params, writer, saved>>
    /\ (pc = "t_zero" /\ Malformed(out))
         => /\ pc' = "t_loss"
            /\ UNCHANGED <<train_loss_avg, train_rec_loss_avg, num_batches, it,
                           epoch, params, writer, saved>>
            /\ grads' \subseteq grads
    /\ pc \in {"t_acc", "t_back", "t_step"} => ~Malformed(out)
    /\ pc = "aborted" => FALSE

C4_MalformedOutputRaises == [][C4_Step]_vars

C4_Witness ==
    /\ pc = "aborted"
    /\ err = "Error unpacking outputs"
    /\ out.type = "tuple"
    /\ Len(out.items) = 2
    /\ epoch = 1
    /\ params = n_train

\* C5: once an exception has left trainer() in epoch k, nothing of epoch k is
\* in the metrics log, bestMSE.pt was not written in epoch k, and final.pt
\* does not exist.
C5_NoPartialEpochState ==
    err # "none" =>
        /\ pc = "aborted"
        /\ \A i \in 1..Len(writer) : writer[i].step < epoch
        /\ \A e \in BestWrites : e < epoch
        /\ FinalWrites = {}

C5_Witness ==
    /\ pc = "aborted"
    /\ err = "AttributeError"
    /\ epoch = 1
    /\ BestWrites = {0}
    /\ Len(writer) = 4

\* C10: for a 3-tuple output the loss of the batch is
\* mse(final, target) + mse(inter1, pooled target) + mse(inter2, target)
\* + kld_weight * kld, for a tensor output it is mse(out, target); the
\* reconstruction accumulator receives mse(final, target) alone, the loss
\* accumulator the loss.  The two batches of the 4-node graph give 1/8 and
\* 15/8, and 1/2 and 27/4.
ExpectedRec(o) == mse_loss(o.items[1], TrainTarget)
ExpectedLoss(o) ==
    IF o.type = "Tensor" THEN mse_loss(o.items[1], TrainTarget)
    ELSE NAdd(NMul(KldWeight, KldLoss(Mu, LogVar)),
              NAdd(mse_loss(o.items[3], TrainTarget),
                   NAdd(mse_loss(o.items[2], T(<<0, 1, 4, 1>>)),
                        mse_loss(o.items[1], TrainTarget))))
C10_Step ==
    /\ (pc = "t_loss" /\ pc' = "t_acc")
         => /\ outloss' = ExpectedRec(out)
            /\ loss' = ExpectedLoss(out)
            /\ (out.type = "Tensor" => loss' = outloss')
            /\ out = GoodTrainOut("HybridGNet", 1) => (outloss' = Q(1, 8) /\ loss' = Q(15, 8))
            /\ out = GoodTrainOut("HybridGNet", 2) => (outloss' = Q(1, 2) /\ loss' = Q(27, 4))
    /\ pc = "t_acc"
         => /\ Last(train_rec_loss_avg') = NAdd(Last(train_rec_loss_avg), ExpectedRec(out))
            /\ Last(train_loss_avg') = NAdd(Last(train_loss_avg), ExpectedLoss(out))

C10_LossDecomposition == [][C10_Step]_vars

C10_Witness ==
    /\ pc = "t_back"
    /\ out = GoodTrainOut("HybridGNet", 1)
    /\ it = 1
    /\ loss = Q(15, 8)
    /\ outloss = Q(1, 8)
    /\ Last(train_loss_avg) = NAdd(Q(27, 4), Q(15, 8))
    /\ Last(train_rec_loss_avg) = NAdd(Q(1, 2), Q(1, 8))

(***************************************************************************)
(* Properties of hd_landmarks().                                           *)
(***************************************************************************)
Rescaled == m_pc \in {"scaled", "returned", "raised"}
InPixels(arr, size) ==
    \A i \in 1..Len(arr) : arr[i][1] \in 0..(size - 1) /\ arr[i][2] \in 0..(size - 1)
\* the index ranges of the regions hd_landmarks uses
UsedRegions(heart) ==
    IF heart THEN {<<0, RLEnd>>, <<RLEnd, LLEnd>>, <<LLEnd, HEnd>>}
    ELSE {<<0, RLEnd>>, <<RLEnd, LLEnd>>}
\* v * size is exactly k + 0.5 for an integer k, and that k
Tie(v, size) ==
    /\ v.kind = "fin"
    /\ (2 * v.n * size) % v.d = 0
    /\ ((2 * v.n * size) \div v.d) % 2 = 1
TieFloor(v, size) == (((2 * v.n * size) \div v.d) - 1) \div 2
\* the ties the claim is about: k >= 0 and k + 1 <= size - 1
TieInScope(v, size) ==
    Tie(v, size) /\ TieFloor(v, size) >= 0 /\ TieFloor(v, size) + 1 <= size - 1

\* C6: whatever the coordinates and the size, and on every build, the pixel
\* coordinates of both rescaled arrays lie in 0..size-1, so that rasterizing
\* them never raises and never wraps; the coordinate 1.0 at size 1024 gives
\* pixel 1023.
C6_PixelsInGrid ==
    Rescaled =>
        /\ InPixels(m_target, m_size)
        /\ InPixels(m_pred, m_size)
        /\ m_pc # "raised"
        /\ \A rg \in UsedRegions(m_heart) :
             /\ Rasterize(Slice(m_target, rg[1], rg[2]), m_size).err = "none"
             /\ Rasterize(Slice(m_pred, rg[1], rg[2]), m_size).err = "none"
        /\ (m_size = DefaultSize /\ m_out.n > 0 /\ m_out.p[1] = Fin(1, 1))
             => m_pred[1][1] = 1023

C6_Witness ==
    /\ m_pc = "returned"
    /\ m_size = DefaultSize
    /\ m_out.n = HEnd
    /\ m_out.p[1] = Fin(1, 1)
    /\ m_pred[1][1] = 1023
    /\ m_label.n = HEnd
    /\ m_label.p[1] = PosBig
    /\ m_build = "indefinite"
    /\ m_target[1][1] = 0

\* C7: hd_landmarks returns values only if no region it uses has an empty
\* raster for the target or for the prediction.
C7_EmptyRegionRaises ==
    m_pc = "returned" =>
        \A rg \in UsedRegions(m_heart) :
            /\ Rasterize(Slice(m_target, rg[1], rg[2]), m_size).px # {}
            /\ Rasterize(Slice(m_pred, rg[1], rg[2]), m_size).px # {}

\* C8: the values hd_landmarks returns are those it returns with the two
\* point sets exchanged.
C8_Symmetric ==
    m_pc = "returned" =>
        /\ Regions(m_pred, m_target, m_size, m_heart).err = "none"
        /\ m_res = Regions(m_pred, m_target, m_size, m_heart).vals

C8_Witness ==
    /\ m_pc = "returned"
    /\ Len(m_pred) = HEnd
    /\ Len(m_target) = HEnd
    /\ LET A == {m_target[i] : i \in 1..RLEnd}
           B == {m_pred[i] : i \in 1..RLEnd}
       IN  /\ Directed2(A, B) # Directed2(B, A)
           /\ m_res[1] = Finite(Max(Directed2(A, B), Directed2(B, A)))

\* the pixel of every coordinate of arr whose product with size is a tie in
\* scope is pix(k)
TiesGive(gen, arr, size, pix(_)) ==
    \A i \in 1..Len(arr) : \A c \in 1..2 :
        TieInScope(Landmarks(gen)[i][c], size)
            => arr[i][c] = pix(TieFloor(Landmarks(gen)[i][c], size))
TieUp(k) == k + 1
TieEven(k) == IF k % 2 = 1 THEN k + 1 ELSE k

\* C9 as stated: a coordinate with v * size = k + 0.5 (k >= 0,
\* k + 1 <= size - 1) becomes pixel k + 1, for even and for odd k.
C9_Original ==
    Rescaled =>
        /\ TiesGive(m_out, m_pred, m_size, TieUp)
        /\ TiesGive(m_label, m_target, m_size, TieUp)

\* C9 as amended: such a coordinate becomes the even one of k and k + 1, that
\* is k + 1 for odd k and k for even k (round half to even, then the clip).
C9_HalfToEven ==
    Rescaled =>
        /\ TiesGive(m_out, m_pred, m_size, TieEven)
        /\ TiesGive(m_label, m_target, m_size, TieEven)

C9_Witness ==
    /\ m_pc = "returned"
    /\ m_size = SmallSize
    /\ m_out.n = HEnd
    /\ m_out.p[1] = Fin(1, 2 * SmallSize)
    /\ m_out.q[2] = Fin(3, 2 * SmallSize)
    /\ m_pred[1][1] = 0
    /\ m_pred[2][2] = 2

(***************************************************************************)
(* Properties of the validation batches.                                   *)
(***************************************************************************)
\* out is what lines 123-124 selected in a validation batch of this epoch
ValSelected ==
    \/ pc = "val" /\ it >= 1
    \/ pc = "aborted" /\ err \in {"ValueError", "IndexError"}

\* C11: the prediction a validation batch evaluates holds all
\* val_batch_size samples of the (primary) output, that is as many points as
\* the reshaped target, and the batch is evaluated without an exception.
C11_WholePredictionEvaluated ==
    (ValSelected /\ out.type = "Tensor") =>
        /\ Len(out.items[1]) = config.val_batch_size
        /\ Len(ReshapePoints(out.items[1])) = config.val_batch_size * NLand(config.Lungs)
        /\ err = "none"

\* the distance of the fixture batch f in region r is f + r pixels
FixtureRegionValues(f, Lungs) ==
    IF Lungs
    THEN <<Finite(f * f), Finite((f + 1) * (f + 1))>>
    ELSE <<Finite(f * f), Finite((f + 1) * (f + 1)), Finite((f + 2) * (f + 2))>>
\* the average of those distances
FixtureDist(f, Lungs) == IF Lungs THEN Q(2 * f + 1, 2) ELSE Q(f + 1, 1)
\* hd_landmarks, called as line 130 / 133 calls it on every fixture batch,
\* returns the distances of the ranges [0,44), [44,94) and, with heart,
\* [94,120): 2 values for Lungs, 3 otherwise
FixturesPartitioned ==
    \A f \in 1..Len(ValLosses), B \in ValBatchSizes, Lungs \in BOOLEAN, build \in Builds :
        LET n == NLand(Lungs)
            r == hd_landmarks(ReshapePoints(ValPrimary(f, B, n)),
                              ReshapePoints(ValPrimary(0, B, n)),
                              DefaultSize, ~Lungs, build)
        IN  /\ r.err = "none"
            /\ Len(r.vals) = (IF Lungs THEN 2 ELSE 3)
            /\ r.vals = FixtureRegionValues(f, Lungs)

\* C12: hd_landmarks returns the distances of the index ranges [0,44),
\* [44,94) and [94,120), 2 of them in the lungs-only configuration and 3
\* otherwise; a validation batch adds their 2-way average to the distance
\* accumulator when Lungs is set and their 3-way average otherwise.
C12_Step ==
    /\ FixturesPartitioned
    /\ (pc = "val" /\ it < n_val /\ out'.type = "Tensor")
         => Last(val_hd_avg') =
                NAdd(Last(val_hd_avg), FixtureDist(out'.items[1][1].f, config.Lungs))
    /\ (pc = "val" /\ it < n_val /\ out'.type # "Tensor")
         => val_hd_avg' = val_hd_avg

C12_RegionAverages == [][C12_Step]_vars

C12_Witness ==
    /\ pc = "val"
    /\ it = 1
    /\ config.Lungs
    /\ out.type = "Tensor"
    /\ out.items[1][1].f = 2
    /\ Last(val_hd_avg) = Q(5, 2)

(***************************************************************************)
(* Properties of the accumulators and of the metrics log.                  *)
(***************************************************************************)
\* a step keeps every entry of s but the last, and appends at most a 0
KeepsEarlier(s, t) ==
    /\ Len(t) \in {Len(s), Len(s) + 1}
    /\ \A i \in 1..(Len(s) - 1) : t[i] = s[i]
    /\ Len(t) = Len(s) + 1 => (t[Len(t)] = Q(0, 1) /\ \A i \in 1..Len(s) : t[i] = s[i])
\* the train batches of epoch e with error 1 and with error 2
Batches1(e, n) == Cardinality({b \in 0..(n - 1) : (e + b) % 2 = 0})
Batches2(e, n) == Cardinality({b \in 0..(n - 1) : (e + b) % 2 = 1})
\* the mean loss of the train batches of epoch e: the batch losses are 15/8
\* and 27/4 (HybridGNet), 1/2 and 2 (PCA, FC)
TrainLossMean(m, e, n) ==
    IF m = "HybridGNet" THEN Q(15 * Batches1(e, n) + 54 * Batches2(e, n), 8 * n)
    ELSE Q(Batches1(e, n) + 4 * Batches2(e, n), 2 * n)
\* the same of the reconstruction losses 1/8 and 1/2, 1/2 and 2
TrainRecMean(m, e, n) ==
    IF m = "HybridGNet" THEN Q(Batches1(e, n) + 4 * Batches2(e, n), 8 * n)
    ELSE Q(Batches1(e, n) + 4 * Batches2(e, n), 2 * n)
\* after the scheduler step of an epoch each history has one entry per epoch
HistoriesComplete ==
    pc \in {"head", "final", "done"} =>
        /\ Len(train_loss_avg) = epoch
        /\ Len(train_rec_loss_avg) = epoch
        /\ Len(val_loss_avg) = epoch
        /\ Len(val_hd_avg) = epoch

\* C13: each of the four accumulators starts an epoch at 0, receives one
\* value per batch and is divided by the epoch's batch count at the end of
\* its loop; after e epochs each history has e entries, entry k is the mean
\* of the batch values of epoch k, and no step changes an earlier entry.
C13_Step ==
    /\ KeepsEarlier(train_loss_avg, train_loss_avg')
    /\ KeepsEarlier(train_rec_loss_avg, train_rec_loss_avg')
    /\ KeepsEarlier(val_loss_avg, val_loss_avg')
    /\ KeepsEarlier(val_hd_avg, val_hd_avg')
    /\ HistoriesComplete'
    \* the entries of an epoch change only in the loop that sums them
    /\ pc \notin {"head", "t_acc", "train"}
         => UNCHANGED <<train_loss_avg, train_rec_loss_avg>>
    /\ pc \notin {"train", "val"} => UNCHANGED <<val_loss_avg, val_hd_avg>>
    /\ (pc = "train" /\ it < n_train) => UNCHANGED <<train_loss_avg, train_rec_loss_avg>>
    \* the resets
    /\ (pc = "head" /\ pc' = "train")
         => /\ Len(train_loss_avg') = epoch + 1 /\ Last(train_loss_avg') = Q(0, 1)
            /\ Len(train_rec_loss_avg') = epoch + 1 /\ Last(train_rec_loss_avg') = Q(0, 1)
            /\ num_batches' = 0
    /\ (pc = "train" /\ pc' = "val")
         => /\ Len(val_loss_avg') = epoch + 1 /\ Last(val_loss_avg') = Q(0, 1)
            /\ Len(val_hd_avg') = epoch + 1 /\ Last(val_hd_avg') = Q(0, 1)
            /\ num_batches' = 0
    \* one value per batch, and the batch counted
    /\ pc = "t_acc"
         => /\ Last(train_loss_avg') = NAdd(Last(train_loss_avg), loss)
            /\ Last(train_rec_loss_avg') = NAdd(Last(train_rec_loss_avg), outloss)
            /\ num_batches = it
    /\ (pc = "val" /\ pc' = "val")
         => /\ Last(val_loss_avg') =
                  NAdd(Last(val_loss_avg), ValLosses[out'.items[1][1].f])
            /\ Last(val_hd_avg') =
                  NAdd(Last(val_hd_avg), FixtureDist(out'.items[1][1].f, config.Lungs))
            /\ num_batches = it
            /\ num_batches' = num_batches + 1
    \* the means
    /\ (pc = "train" /\ pc' = "val")
         => /\ num_batches = n_train
            /\ Last(train_loss_avg') = TrainLossMean(model, epoch, n_train)
            /\ Last(train_rec_loss_avg') = TrainRecMean(model, epoch, n_train)
    /\ (pc = "val" /\ pc' = "log")
         => /\ num_batches = n_val
            /\ NScale(Last(val_loss_avg'), n_val) = Last(val_loss_avg)
            /\ NScale(Last(val_hd_avg'), n_val) = Last(val_hd_avg)

C13_AccumulatorMeans == [][C13_Step]_vars

C13_Witness ==
    /\ pc = "done"
    /\ epoch = 2
    /\ n_train = 2
    /\ n_val = 2
    /\ model = "HybridGNet"
    /\ train_loss_avg = <<Q(69, 16), Q(69, 16)>>
    /\ train_rec_loss_avg = <<Q(5, 16), Q(5, 16)>>
    /\ val_loss_avg = <<Q(1, 4), Q(9, 20)>>
    /\ val_hd_avg = <<Q(5, 2), Q(9, 2)>>

(***************************************************************************)
(* Properties of the setup.                                                *)
(***************************************************************************)
\* C14: the run reaches the statement after the creation of the run
\* directory (line 51) only if os.mkdir made the directory or the directory
\* was there already; any other failure of os.mkdir has left trainer().
C14_OnlyExistingSwallowed ==
    pc = "setup" => folder = "exists"

\* the epochs whose metrics are in the log
Logged == IF pc \in {"check", "sched"} THEN epoch + 1 ELSE epoch
MetricTags ==
    <<"Train/Loss", "Train/MSE", "Validation/MSE", "Validation/Hausdorff Distance">>
\* the log holds, for each logged epoch in turn, the four tags once, with the
\* epoch as step and the epoch's history entries as values
LogByEpoch ==
    /\ Len(writer) = 4 * Logged
    /\ \A e \in 0..(Logged - 1) :
         /\ \A k \in 1..4 :
              /\ writer[4 * e + k].tag = MetricTags[k]
              /\ writer[4 * e + k].step = e
         /\ writer[4 * e + 1].value = train_loss_avg[e + 1]
         /\ writer[4 * e + 2].value = NScale(train_rec_loss_avg[e + 1], 1048576)
         /\ writer[4 * e + 3].value = NScale(val_loss_avg[e + 1], 1048576)
         /\ writer[4 * e + 4].value = val_hd_avg[e + 1]
    /\ \A i, j \in 1..Len(writer) :
         (writer[i].tag = writer[j].tag /\ writer[i].step = writer[j].step) => i = j

\* C15: the metrics log only grows; for every epoch that got as far as its
\* metrics it holds one value for each of the four tags with the epoch as
\* step, written after the epoch's validation and before its checkpoint
\* check, the epochs in increasing order and no (tag, step) pair twice.
C15_Step ==
    /\ LogByEpoch'
    /\ Len(writer') >= Len(writer)
    /\ \A i \in 1..Len(writer) : writer'[i] = writer[i]
    /\ writer' # writer => (pc = "log" /\ pc' = "check" /\ Len(writer') = Len(writer) + 4)
    /\ pc = "log" => (writer' # writer /\ Len(val_loss_avg) = epoch + 1)
    /\ pc = "check" => (Len(writer) = 4 * (epoch + 1) /\ writer[Len(writer)].step = epoch)

C15_LogAppendOnlyByEpoch == [][C15_Step]_vars

C15_Witness ==
    /\ pc = "done"
    /\ epoch = 2
    /\ Len(writer) = 8
    /\ writer[5].tag = "Train/Loss"
    /\ writer[5].step = 1
    /\ writer[8].value = Q(5, 2)
    /\ writer[3].value = Q(1048576, 5)


(***************************************************************************)
(* C16: the parameters change only in the optimizer step of a train batch; *)
(* validation, the metrics log, the best check and the scheduler step      *)
(* leave them alone, so bestMSE.pt written in epoch e holds the parameters *)
(* after the last optimizer step of epoch e, and final.pt those after the  *)
(* last optimizer step of the last epoch.                                  *)
(***************************************************************************)
\* the optimizer steps taken when epochs 0..e are through
StepsThrough(e) == (e + 1) * n_train

SavedAfterLastStep ==
    \A i \in 1..Len(saved) :
      /\ saved[i].file = "bestMSE.pt" => saved[i].params = StepsThrough(saved[i].epoch)
      /\ saved[i].file = "final.pt" => saved[i].params = config.epochs * n_train

C16_Step ==
    /\ params' # params => (pc = "t_step" /\ pc' = "train" /\ params' = params + 1)
    /\ pc \in {"val", "log", "check", "sched"} =>
         (params' = params /\ params = StepsThrough(epoch))
    /\ SavedAfterLastStep'

C16_ParamsOnlyByOptimizerStep == [][C16_Step]_vars

C16_Witness ==
    /\ pc = "done"
    /\ n_train = 2
    /\ config.epochs = 2
    /\ Len(saved) = 3
    /\ saved[2] = [file |-> "bestMSE.pt", epoch |-> 1, params |-> 4]
    /\ saved[3] = [file |-> "final.pt", epoch |-> 2, params |-> 4]


(***************************************************************************)
(* C17: the train batches of an epoch are processed one after the other,   *)
(* each in the order forward, zero gradients, loss, accumulate, backward,  *)
(* optimizer step, with one backward pass and one optimizer step per       *)
(* batch; the gradients are zeroed before each backward pass, so the       *)
(* optimizer steps on the gradients of the current batch alone.            *)
(***************************************************************************)
BatchOrder ==
    [train |-> {"t_zero", "val", "aborted"},
     t_zero |-> {"t_loss"},
     t_loss |-> {"t_acc", "aborted"},
     t_acc |-> {"t_back"},
     t_back |-> {"t_step"},
     t_step |-> {"train"}]

C17_Step ==
    /\ pc \in TrainPlaces =>
         /\ pc' \in BatchOrder[pc]
         /\ params = epoch * n_train + it
         /\ num_batches = it
    /\ pc \in {"t_loss", "t_acc", "t_back"} => grads = {}
    /\ pc = "t_back" => grads' = {<<epoch, it>>}
    /\ pc = "t_step" =>
         /\ grads = {<<epoch, it>>}
         /\ params' = params + 1
         /\ it' = it + 1
         /\ epoch' = epoch
    /\ grads' # grads => pc \in {"t_zero", "t_back"}
    /\ it' # it => (pc = "t_step" \/ it' = 0 \/ pc = "val")

C17_BatchStepOrder == [][C17_Step]_vars

C17_Witness ==
    /\ pc = "t_step"
    /\ epoch = 1
    /\ it = 1
    /\ grads = {<<1, 1>>}
    /\ params = n_train + 1


(***************************************************************************)
(* C18: the scheduler is stepped once at the end of each epoch and         *)
(* multiplies the rate by gamma once every stepsize epochs: every          *)
(* optimizer step of epoch e runs at lr * gamma^floor(e / stepsize), and   *)
(* the rate does not change within an epoch.                               *)
(***************************************************************************)
C18_Step ==
    /\ pc \in TrainPlaces => decays = epoch \div config.stepsize
    /\ pc = "t_step" => (params' = params + 1 /\ decays' = decays)
    /\ decays' # decays =>
         /\ pc = "sched"
         /\ epoch' = epoch + 1
         /\ decays' = decays + 1
         /\ epoch' % config.stepsize = 0
    /\ pc = "sched" => (last_epoch = epoch /\ last_epoch' = epoch')
    /\ epoch' = epoch => decays' = decays

C18_RateByEpoch == [][C18_Step]_vars

C18_Witness ==
    /\ pc = "t_step"
    /\ config.stepsize = 2
    /\ epoch = 3
    /\ decays = 1
    /\ params = 3


(***************************************************************************)
(* C19: one device is selected for the run, the accelerator if there is    *)
(* one and the CPU otherwise; for each of HybridGNet, PCA and FC the       *)
(* parameters, the graph matrices and the batches are on that device, and  *)
(* without an accelerator the run goes on, on the CPU.                     *)
(***************************************************************************)
Selected == SelectDevice(cuda)

C19_OneDeviceCpuFallback ==
    /\ cfg_device \in {"none", Selected}
    /\ device \in {"none", Selected}
    /\ A_t \in {"none", Selected}
    /\ batch_dev \in {"none", Selected}
    /\ main_pc \in {"train", "val", "done"} => model_dev = Selected
    /\ (args_model \in {"HybridGNet", "PCA", "FC"} /\ ~cuda) => main_err = "none"


(***************************************************************************)
(* C20: an epoch whose train loader or validation loader yields no batch   *)
(* does not complete: the division of the accumulators by the count 0      *)
(* raises, and the run is left in that epoch with no metrics of the epoch  *)
(* logged, no bestMSE.pt of the epoch and no final.pt; an epoch that       *)
(* reaches the best check has processed at least one train batch and at    *)
(* least one validation batch.                                             *)
(***************************************************************************)
EmptyLoader == n_train = 0 \/ n_val = 0

C20_Step ==
    /\ (pc = "train" /\ it = n_train /\ n_train = 0)
         => (pc' = "aborted" /\ err' = "ZeroDivisionError")
    /\ (pc = "val" /\ it = n_val /\ n_val = 0)
         => (pc' = "aborted" /\ err' = "ZeroDivisionError")
    /\ (pc' = "aborted" /\ err' = "ZeroDivisionError")
         => /\ EmptyLoader
            /\ pc \in {"train", "val"}
            /\ UNCHANGED <<writer, saved, epoch, best>>
            /\ \A i \in 1..Len(writer) : writer[i].step # epoch
            /\ epoch \notin BestWrites
            /\ FinalWrites = {}
    /\ (EmptyLoader /\ config.epochs > 0)
         => /\ pc' \notin {"log", "check", "sched", "final", "done"}
            /\ writer' = <<>>
            /\ saved' = <<>>
    /\ pc = "check"
         => /\ n_train >= 1
            /\ n_val >= 1
            /\ params = (epoch + 1) * n_train
            /\ num_batches = n_val
            /\ num_batches >= 1

C20_EmptyEpochAborts == [][C20_Step]_vars

C20_Witness ==
    /\ pc = "aborted"
    /\ err = "ZeroDivisionError"
    /\ n_val = 0
    /\ n_train = 2
    /\ params = 2
    /\ Len(train_loss_avg) = 1
    /\ Len(val_loss_avg) = 1
    /\ writer = <<>>
    /\ saved = <<>>

====
